---------------------------- MODULE Spec2Model ----------------------------
(***************************************************************************)
(* A model of main.py, the NLP-Hypnosis-Sales Toolkit API: a FastAPI       *)
(* service that serves JSON content packs read from DATA_DIR.              *)
(*                                                                         *)
(* A Python str is a sequence of one-character strings.  A fixed literal   *)
(* of the source that is never inspected (an HTML tag, the words of an     *)
(* error message) is one element of such a sequence.                       *)
(*                                                                         *)
(* The data directory is a sequence of entries in the order os.listdir     *)
(* yields them; an entry is a file name and what json.load makes of the    *)
(* file: a mapping (a sequence of key/text items in insertion order) or a  *)
(* JSONDecodeError.  File names are compared exactly, as on the POSIX      *)
(* filesystems the service is deployed on.  A request is handled in one    *)
(* step: a handler keeps nothing outside its own frame and shares only the *)
(* files, which it reads.                                                  *)
(***************************************************************************)
EXTENDS Integers, Sequences, FiniteSets, TLC

VARIABLES dataDir,    \* the entries of DATA_DIR
          configFile, \* app_schema/config.json: is it there, does it decode
          pc,         \* "idle" | "responded"
          request,    \* the request being handled
          response    \* what the handler returned or raised

vars == <<dataDir, configFile, pc, request, response>>

-----------------------------------------------------------------------------
(* Bounds of the model *)

\* how many files DATA_DIR holds at most
MaxFiles == 2

\* how far the long section text runs past the excerpt limit
LongExtra == 1

\* text[:300] in search_pack
ExcerptLen == 300

-----------------------------------------------------------------------------
(* str operations *)

LowerLetters == <<"a","b","c","d","e","f","g","h","i","j","k","l","m",
                  "n","o","p","q","r","s","t","u","v","w","x","y","z">>

UpperLetters == <<"A","B","C","D","E","F","G","H","I","J","K","L","M",
                  "N","O","P","Q","R","S","T","U","V","W","X","Y","Z">>

\* the lower-case letter of each upper-case letter, and the converse
UpperToLower ==
    [c \in {UpperLetters[i] : i \in 1..26} |->
        LowerLetters[CHOOSE i \in 1..26 : UpperLetters[i] = c]]

LowerToUpper ==
    [c \in {LowerLetters[i] : i \in 1..26} |->
        UpperLetters[CHOOSE i \in 1..26 : LowerLetters[i] = c]]

IsUpper(c) == c \in DOMAIN UpperToLower

IsLower(c) == c \in DOMAIN LowerToUpper

IsCased(c) == IsUpper(c) \/ IsLower(c)

CharLower(c) == IF IsUpper(c) THEN UpperToLower[c] ELSE c

CharUpper(c) == IF IsLower(c) THEN LowerToUpper[c] ELSE c

\* str.lower()
StrLower(s) == [i \in 1..Len(s) |-> CharLower(s[i])]

\* str.title(): a cased character is upper-cased after an uncased one (or at
\* the start) and lower-cased after a cased one
StrTitle(s) ==
    [i \in 1..Len(s) |->
        IF i > 1 /\ IsCased(s[i-1]) THEN CharLower(s[i]) ELSE CharUpper(s[i])]

IsSpace(c) == c \in {" ", "\t", "\n", "\r"}

\* str.strip()
StrStrip(s) ==
    LET keep == {i \in 1..Len(s) : ~IsSpace(s[i])}
    IN  IF keep = {} THEN <<>>
        ELSE LET lo == CHOOSE i \in keep : \A j \in keep : i <= j
                 hi == CHOOSE i \in keep : \A j \in keep : j <= i
             IN  SubSeq(s, lo, hi)

\* needle in hay
StrIn(needle, hay) ==
    \E i \in 0..(Len(hay) - Len(needle)) :
        SubSeq(hay, i + 1, i + Len(needle)) = needle

\* s.endswith(suffix)
EndsWith(s, suffix) ==
    /\ Len(suffix) <= Len(s)
    /\ SubSeq(s, Len(s) - Len(suffix) + 1, Len(s)) = suffix

\* s.split(sep)[0]: what precedes the first occurrence of sep, all of s
\* when sep does not occur
SplitFirst(s, sep) ==
    LET hits == {i \in 1..(Len(s) - Len(sep) + 1) :
                    SubSeq(s, i, i + Len(sep) - 1) = sep}
    IN  IF hits = {} THEN s
        ELSE SubSeq(s, 1, (CHOOSE i \in hits : \A j \in hits : i <= j) - 1)

\* s[:n]
Prefix(s, n) == SubSeq(s, 1, IF Len(s) < n THEN Len(s) ELSE n)

DotJson == <<".", "j", "s", "o", "n">>

-----------------------------------------------------------------------------
(* Optional[...] request fields *)

None == [some |-> FALSE, val |-> <<>>]

Some(v) == [some |-> TRUE, val |-> v]

\* Python truthiness of an Optional[str], Optional[List] or Optional[Dict]:
\* None and the empty value are falsy
Truthy(o) == o.some /\ o.val # <<>>

-----------------------------------------------------------------------------
(* The filesystem *)

\* os.listdir(DATA_DIR)
ListDir(dir) == [i \in 1..Len(dir) |-> dir[i].name]

\* os.path.exists(fname)
PathExists(dir, fname) == \E i \in 1..Len(dir) : dir[i].name = fname

\* a variant that opens the file for writing, which empties it
DirAfterReadTruncating(dir, i) ==
    [dir EXCEPT ![i].doc = [ok |-> FALSE, items |-> <<>>]]

\* the directory after open(fname, 'r') and json.load have read entry i
DirAfterRead(dir, i) == dir

\* the pack names of the catalog comprehension
\* [f.split(".json")[0] for f in os.listdir(DATA_DIR) if f.endswith(".json")]
CatalogNames(dir) ==
    LET files == ListDir(dir)
        json  == SelectSeq(files, LAMBDA f : EndsWith(f, DotJson))
    IN  [i \in 1..Len(json) |-> SplitFirst(json[i], DotJson)]

\* load_pack: what it returns or raises, and the directory it leaves
load_pack(dir, pack_name) ==
    LET fname == StrLower(pack_name) \o DotJson
    IN  IF ~PathExists(dir, fname)
        THEN [raised |-> "FileNotFoundError",
              detail |-> <<"Pack not found: ">> \o pack_name,
              data   |-> <<>>,
              dir    |-> dir]
        ELSE LET i == CHOOSE j \in 1..Len(dir) : dir[j].name = fname
             IN  IF dir[i].doc.ok
                 THEN [raised |-> "none", detail |-> <<>>,
                       data |-> dir[i].doc.items, dir |-> DirAfterRead(dir, i)]
                 ELSE [raised |-> "JSONDecodeError", detail |-> <<>>,
                       data |-> <<>>, dir |-> DirAfterRead(dir, i)]

\* a variant that tests "keys is None": an empty list filters everything out
filter_sections_none_only(full_pack, keys) ==
    IF ~keys.some THEN full_pack
    ELSE SelectSeq(full_pack,
                   LAMBDA it : \E j \in 1..Len(keys.val) : keys.val[j] = it.k)

\* filter_sections
filter_sections(full_pack, keys) ==
    IF ~Truthy(keys) THEN full_pack
    ELSE SelectSeq(full_pack,
                   LAMBDA it : \E j \in 1..Len(keys.val) : keys.val[j] = it.k)


-----------------------------------------------------------------------------
(* What a handler hands back to FastAPI *)

\* a returned value, serialised with status 200
Ok(body) == [status |-> 200, detail |-> <<>>, body |-> body]

\* raise HTTPException(status_code=404, detail=...)
NotFound(detail) == [status |-> 404, detail |-> detail, body |-> <<>>]

\* an exception no handler catches: FastAPI answers 500
ServerError == [status |-> 500, detail |-> <<"Internal Server Error">>, body |-> <<>>]

\* req.options or {}
OptionsOrEmpty(options) == IF Truthy(options) THEN options.val ELSE <<>>

-----------------------------------------------------------------------------
(* Endpoints.  Each yields the response and the directory it leaves. *)

\* GET /
health ==
    Ok([status |-> "ok", service |-> "nlp-hypnosis-sales-toolkit", version |-> "1.0.0"])

\* GET /packs
list_packs(dir) == Ok([available_packs |-> CatalogNames(dir)])

\* POST /get_pack
get_pack(dir, req) ==
    LET pack_name == StrLower(req.pack)
        loaded    == load_pack(dir, pack_name)
    IN  CASE loaded.raised = "FileNotFoundError" ->
               [resp |-> NotFound(<<"Pack '">> \o pack_name \o <<"' not found.">>),
                dir  |-> loaded.dir]
          [] loaded.raised = "JSONDecodeError" ->
               [resp |-> ServerError, dir |-> loaded.dir]
          [] OTHER ->
               [resp |-> Ok([pack    |-> pack_name,
                             content |-> filter_sections(loaded.data, req.sections),
                             meta    |-> [format  |-> req.format,
                                          options |-> OptionsOrEmpty(req.options)]]),
                dir  |-> loaded.dir]

\* the scope of a search: packs = [pack] if pack else [catalog comprehension]
SearchScope(dir, pack) == IF Truthy(pack) THEN <<pack.val>> ELSE CatalogNames(dir)

\* a variant that does not lowercase the section text
MatchesTextAsIs(q, sec, text) == StrIn(q, StrLower(sec) \o <<" ">> \o text)

\* the match test of search_pack: q in (sec.lower() + " " + text.lower())
Matches(q, sec, text) == StrIn(q, StrLower(sec) \o <<" ">> \o StrLower(text))

\* a variant that cuts one character later
ExcerptOffByOne(text) == Prefix(text, ExcerptLen + 1)

\* text[:300]
Excerpt(text) == Prefix(text, ExcerptLen)

\* a variant that inserts each record at the head of the list
RECURSIVE SearchSectionsPrepending(_, _, _, _, _)
SearchSectionsPrepending(q, p, data, j, results) ==
    IF j > Len(data) THEN results
    ELSE SearchSectionsPrepending(q, p, data, j + 1,
            IF StrIn(q, StrLower(data[j].k) \o <<" ">> \o StrLower(data[j].v))
            THEN <<[pack    |-> p,
                    section |-> data[j].k,
                    excerpt |-> Prefix(data[j].v, ExcerptLen)]>> \o results
            ELSE results)

\* the inner loop of search_pack: for sec, text in data.items()
RECURSIVE SearchSections(_, _, _, _, _)
SearchSections(q, p, data, j, results) ==
    IF j > Len(data) THEN results
    ELSE SearchSections(q, p, data, j + 1,
            IF Matches(q, data[j].k, data[j].v)
            THEN Append(results, [pack    |-> p,
                                  section |-> data[j].k,
                                  excerpt |-> Excerpt(data[j].v)])
            ELSE results)

\* the results list search_pack starts from
InitialResults == <<>>

\* a variant without the except clause: FileNotFoundError ends the search
RECURSIVE SearchPacksNoCatch(_, _, _, _, _)
SearchPacksNoCatch(dir, q, packs, i, results) ==
    IF i > Len(packs) THEN [raised |-> "none", results |-> results, dir |-> dir]
    ELSE LET loaded == load_pack(dir, packs[i])
         IN  IF loaded.raised # "none"
             THEN [raised |-> loaded.raised, results |-> results, dir |-> loaded.dir]
             ELSE SearchPacksNoCatch(loaded.dir, q, packs, i + 1,
                     SearchSections(q, packs[i], loaded.data, 1, results))

\* a variant with "except Exception": every failing pack is skipped
RECURSIVE SearchPacksCatchAll(_, _, _, _, _)
SearchPacksCatchAll(dir, q, packs, i, results) ==
    IF i > Len(packs) THEN [raised |-> "none", results |-> results, dir |-> dir]
    ELSE LET loaded == load_pack(dir, packs[i])
         IN  IF loaded.raised # "none"
             THEN SearchPacksCatchAll(loaded.dir, q, packs, i + 1, results)
             ELSE SearchPacksCatchAll(loaded.dir, q, packs, i + 1,
                     SearchSections(q, packs[i], loaded.data, 1, results))

\* the outer loop of search_pack: for p in packs
RECURSIVE SearchPacks(_, _, _, _, _)
SearchPacks(dir, q, packs, i, results) ==
    IF i > Len(packs) THEN [raised |-> "none", results |-> results, dir |-> dir]
    ELSE LET loaded == load_pack(dir, packs[i])
         IN  CASE loaded.raised = "FileNotFoundError" ->
                    SearchPacks(loaded.dir, q, packs, i + 1, results)
               [] loaded.raised = "JSONDecodeError" ->
                    [raised |-> "JSONDecodeError", results |-> results, dir |-> loaded.dir]
               [] OTHER ->
                    SearchPacks(loaded.dir, q, packs, i + 1,
                                SearchSections(q, packs[i], loaded.data, 1, results))

\* POST /search
search_pack(dir, req, pack) ==
    LET q     == StrLower(StrStrip(req.q))
        packs == SearchScope(dir, pack)
        done  == SearchPacks(dir, q, packs, 1, InitialResults)
    IN  IF done.raised = "none"
        THEN [resp |-> Ok([query |-> q, results |-> done.results]), dir |-> done.dir]
        ELSE [resp |-> ServerError, dir |-> done.dir]

\* the palette table of render_payload, .get(req.pack.lower(), {})
Palette(name) ==
    CASE name = <<"n","l","p">> ->
           << [k |-> "bg", v |-> "#ffffff"], [k |-> "primary", v |-> "#0B5F9A"],
              [k |-> "accent", v |-> "#2A9D7D"] >>
      [] name = <<"h","y","p","n","o","s","i","s">> ->
           << [k |-> "bg", v |-> "#e8f2ff"], [k |-> "primary", v |-> "#4750B8"],
              [k |-> "accent", v |-> "#2AA199"] >>
      [] name = <<"s","a","l","e","s">> ->
           << [k |-> "bg", v |-> "#fff9e6"], [k |-> "primary", v |-> "#D9534F"],
              [k |-> "accent", v |-> "#E89E2D"] >>
      [] OTHER -> <<>>

\* a variant that looks the palette up by the name as requested
StyleByRawName(pack) ==
    [theme   |-> StrLower(pack),
     palette |-> Palette(pack),
     fonts   |-> <<"Inter", "Nunito">>]

\* the style block of render_payload
Style(pack) ==
    [theme   |-> StrLower(pack),
     palette |-> Palette(StrLower(pack)),
     fonts   |-> <<"Inter", "Nunito">>]

\* POST /render_payload
render_payload(dir, req) ==
    LET loaded == load_pack(dir, StrLower(req.pack))
    IN  CASE loaded.raised = "FileNotFoundError" ->
               [resp |-> NotFound(<<"Pack '">> \o req.pack \o <<"' not found.">>),
                dir  |-> loaded.dir]
          [] loaded.raised = "JSONDecodeError" ->
               [resp |-> ServerError, dir |-> loaded.dir]
          [] OTHER ->
               [resp |-> Ok([pack     |-> req.pack,
                             style    |-> Style(req.pack),
                             sections |-> filter_sections(loaded.data, req.sections),
                             options  |-> OptionsOrEmpty(req.options)]),
                dir  |-> loaded.dir]

\* GET /schema
schema(cfg) ==
    IF cfg.exists
    THEN IF cfg.ok THEN Ok([config |-> "config.json"]) ELSE ServerError
    ELSE Ok([error |-> "config.json missing"])

\* the loop of preview: one <section> per item
RECURSIVE PreviewSections(_, _, _)
PreviewSections(content, j, html) ==
    IF j > Len(content) THEN html
    ELSE PreviewSections(content, j + 1,
            html \o <<"<section><h2>">> \o content[j].k \o <<"</h2><p>">>
                 \o content[j].v \o <<"</p></section>">>)

\* GET /preview/{pack_name}
preview(dir, pack_name) ==
    LET loaded == load_pack(dir, pack_name)
    IN  CASE loaded.raised = "FileNotFoundError" ->
               [resp |-> NotFound(<<"Pack not found">>), dir |-> loaded.dir]
          [] loaded.raised = "JSONDecodeError" ->
               [resp |-> ServerError, dir |-> loaded.dir]
          [] OTHER ->
               [resp |-> Ok(PreviewSections(loaded.data, 1,
                               <<"<html><head><meta charset='utf-8'><title>Preview</title></head><body>">>
                               \o <<"<h1>">> \o StrTitle(pack_name) \o <<" Preview</h1>">>)
                            \o <<"</body></html>">>),
                dir  |-> loaded.dir]

-----------------------------------------------------------------------------
(* The inputs the model draws from *)

Sales    == <<"s","a","l","e","s">>
SalesCap == <<"S","a","l","e","s">>
Nlp      == <<"n","l","p">>
Hypnosis == <<"h","y","p","n","o","s","i","s">>
Other    == <<"a">>
Empty    == <<>>

KeyAb == <<"A","b">>
KeyC  == <<"c">>
KeyX  == <<"x">>

\* a section text longer than the excerpt: "aa...a" then "z" past the limit
LongText == [i \in 1..(ExcerptLen + LongExtra) |->
                IF i > ExcerptLen THEN "z" ELSE "a"]

DocA == [ok |-> TRUE,
         items |-> << [k |-> KeyAb, v |-> <<"B","a"," ","c">>],
                      [k |-> KeyC,  v |-> <<"b">>] >>]

DocB == [ok |-> TRUE,
         items |-> << [k |-> KeyC,  v |-> LongText],
                      [k |-> KeyAb, v |-> <<>>] >>]

\* a file json.load cannot decode
Malformed == [ok |-> FALSE, items |-> <<>>]

\* sales.json and Sales.json hold any document; the other packs a valid one;
\* notes.txt is no JSON file
Entries ==
    {[name |-> n \o DotJson, doc |-> d] :
        n \in {Sales, SalesCap}, d \in {DocA, DocB, Malformed}}
    \cup {[name |-> n \o DotJson, doc |-> DocA] : n \in {Nlp, Hypnosis, Other}}
    \cup {[name |-> <<"n","o","t","e","s",".","t","x","t">>, doc |-> Malformed]}

\* the directories of at most MaxFiles files, in every listing order
Directories ==
    {d \in UNION {[1..n -> Entries] : n \in 0..MaxFiles} :
        \A i, j \in 1..Len(d) : i # j => d[i].name # d[j].name}

ConfigFiles == {[exists |-> FALSE, ok |-> FALSE],
                [exists |-> TRUE,  ok |-> TRUE],
                [exists |-> TRUE,  ok |-> FALSE]}

PackNames == {Empty, Sales, SalesCap, Nlp, Hypnosis, Other}

SectionLists == {None, Some(<<>>), Some(<<KeyAb>>), Some(<<KeyX>>),
                 Some(<<KeyC, KeyAb>>), Some(<<KeyX, KeyC>>)}

\* the sections and options a render_payload request carries
RenderInputs ==
    {[sections |-> None, options |-> None],
     [sections |-> Some(<<KeyC, KeyAb>>), options |-> Some(<<>>)],
     [sections |-> Some(<<KeyAb>>), options |-> Some(<<[k |-> "size", v |-> "A4"]>>)]}

\* the empty query, a blank one, one spanning the joint of key and text, one
\* found only past the excerpt limit, one to trim, one in mixed case
Queries == {<<>>, <<" ">>, <<"b"," ","B">>, <<"z">>, <<" ","C","\t">>, <<"a","B">>}

SearchPacksParam == {None} \cup {Some(n) : n \in {Empty, Sales, SalesCap, Other}}

PathNames == {Sales, SalesCap, Other}

-----------------------------------------------------------------------------
(* The service *)

NoRequest == [endpoint |-> "none"]

NoResponse == [status |-> 0, detail |-> <<>>, body |-> <<>>]

Init ==
    /\ dataDir \in Directories
    /\ configFile \in ConfigFiles
    /\ pc = "idle"
    /\ request = NoRequest
    /\ response = NoResponse

Health ==
    /\ pc = "idle"
    /\ request' = [endpoint |-> "health"]
    /\ response' = health
    /\ pc' = "responded"
    /\ UNCHANGED <<dataDir, configFile>>

ListPacks ==
    /\ pc = "idle"
    /\ request' = [endpoint |-> "list_packs"]
    /\ response' = list_packs(dataDir)
    /\ pc' = "responded"
    /\ UNCHANGED <<dataDir, configFile>>

GetPack ==
    /\ pc = "idle"
    /\ \E p \in PackNames \ {Hypnosis}, s \in SectionLists :
         LET req == [endpoint |-> "get_pack", pack |-> p, sections |-> s,
                     format |-> "json", options |-> None]
             out == get_pack(dataDir, req)
         IN  /\ request' = req
             /\ response' = out.resp
             /\ dataDir' = out.dir
    /\ pc' = "responded"
    /\ UNCHANGED configFile

Search ==
    /\ pc = "idle"
    /\ \E q \in Queries, p \in SearchPacksParam :
         LET req == [endpoint |-> "search", q |-> q, pack |-> p]
             out == search_pack(dataDir, req, p)
         IN  /\ request' = req
             /\ response' = out.resp
             /\ dataDir' = out.dir
    /\ pc' = "responded"
    /\ UNCHANGED configFile

RenderPayload ==
    /\ pc = "idle"
    /\ \E p \in PackNames, i \in RenderInputs :
         LET req == [endpoint |-> "render_payload", pack |-> p,
                     sections |-> i.sections, format |-> "json",
                     options |-> i.options]
             out == render_payload(dataDir, req)
         IN  /\ request' = req
             /\ response' = out.resp
             /\ dataDir' = out.dir
    /\ pc' = "responded"
    /\ UNCHANGED configFile

Schema ==
    /\ pc = "idle"
    /\ request' = [endpoint |-> "schema"]
    /\ response' = schema(configFile)
    /\ pc' = "responded"
    /\ UNCHANGED <<dataDir, configFile>>

Preview ==
    /\ pc = "idle"
    /\ \E p \in PathNames :
         LET out == preview(dataDir, p)
         IN  /\ request' = [endpoint |-> "preview", pack_name |-> p]
             /\ response' = out.resp
             /\ dataDir' = out.dir
    /\ pc' = "responded"
    /\ UNCHANGED configFile

\* the response is serialised and the request's objects are discarded
Respond ==
    /\ pc = "responded"
    /\ pc' = "idle"
    /\ request' = NoRequest
    /\ response' = NoResponse
    /\ UNCHANGED <<dataDir, configFile>>

Next ==
    \/ Health
    \/ ListPacks
    \/ GetPack
    \/ Search
    \/ RenderPayload
    \/ Schema
    \/ Preview
    \/ Respond

Spec == Init /\ [][Next]_vars

-----------------------------------------------------------------------------
(* Vocabulary of the properties *)

\* a request to endpoint ep has been handled and its response is at hand
Handled(ep) == pc = "responded" /\ request.endpoint = ep

\* the backing document of a pack name: <data-dir>/<lowercase name>.json
BackingFile(name) == StrLower(name) \o DotJson

HasBackingDocument(name) ==
    \E i \in 1..Len(dataDir) : dataDir[i].name = BackingFile(name)

BackingDocument(name) ==
    dataDir[CHOOSE i \in 1..Len(dataDir) : dataDir[i].name = BackingFile(name)].doc

\* the pack loads: its backing document exists and stores a mapping
Loads(name) == HasBackingDocument(name) /\ BackingDocument(name).ok

\* the names list_packs returns in available_packs
Catalog == list_packs(dataDir).body.available_packs

InCatalog(name) == \E i \in 1..Len(Catalog) : Catalog[i] = name

\* a message names a pack, in whatever case
Mentions(detail, name) == StrIn(StrLower(name), StrLower(detail))

\* the entries of a mapping whose key is one of keys, in the mapping's order
Restrict(items, keys) ==
    SelectSeq(items, LAMBDA it : it.k \in {keys[j] : j \in 1..Len(keys)})

\* the normalised query is a substring of lowercase(key) + " " + lowercase(text)
QueryMatches(q, key, text) ==
    LET nq  == StrLower(StrStrip(q))
        hay == StrLower(key) \o <<" ">> \o StrLower(text)
    IN  \E i \in 1..(Len(hay) + 1) :
            /\ i + Len(nq) - 1 <= Len(hay)
            /\ \A j \in 1..Len(nq) : hay[i + j - 1] = nq[j]

\* results holds a record for section key of pack p
HasResult(results, p, key) ==
    \E r \in 1..Len(results) : results[r].pack = p /\ results[r].section = key

\* the packs a search request covers
Scope == SearchScope(dataDir, request.pack)

-----------------------------------------------------------------------------
(* C1 *)

\* every JSON file of the data directory stores a mapping
AllDocumentsWellFormed ==
    \A i \in 1..Len(dataDir) :
        EndsWith(dataDir[i].name, DotJson) => dataDir[i].doc.ok

\* C1: get_pack with a name of the catalog and no sections filter succeeds
\* (no 404) and returns as content the mapping stored in the name's backing
\* document.
C1_CatalogPackIsServed ==
    (/\ Handled("get_pack")
     /\ ~request.sections.some
     /\ InCatalog(request.pack)
     /\ AllDocumentsWellFormed)
    => /\ response.status = 200
       /\ response.body.content = BackingDocument(request.pack).items

-----------------------------------------------------------------------------
(* C2 *)

\* C2, as claimed: for a pack name with no backing document, get_pack and
\* render_payload answer 404 with a message naming the pack, and search with
\* pack = that name returns an empty results list and no error.
C2_Original ==
    /\ (Handled("get_pack") /\ ~HasBackingDocument(request.pack))
        => response.status = 404 /\ Mentions(response.detail, request.pack)
    /\ (Handled("render_payload") /\ ~HasBackingDocument(request.pack))
        => response.status = 404 /\ Mentions(response.detail, request.pack)
    /\ (Handled("search") /\ request.pack.some
            /\ ~HasBackingDocument(request.pack.val))
        => response.status = 200 /\ response.body.results = <<>>

\* C2, amended: for a pack name with no backing document, get_pack answers
\* 404 with a message holding the lowercased name and render_payload answers
\* 404 with a message holding the name as requested; when the name is not
\* empty, search with pack = that name returns an empty results list and no
\* error, for every query.
C2_MissingPack ==
    /\ (Handled("get_pack") /\ ~HasBackingDocument(request.pack))
        => response.status = 404
           /\ StrIn(StrLower(request.pack), response.detail)
    /\ (Handled("render_payload") /\ ~HasBackingDocument(request.pack))
        => response.status = 404 /\ StrIn(request.pack, response.detail)
    /\ (Handled("search") /\ request.pack.some /\ request.pack.val # <<>>
            /\ ~HasBackingDocument(request.pack.val))
        => response.status = 200 /\ response.body.results = <<>>

\* a search scoped to a missing pack came back empty although the data
\* directory holds a pack with a section the query matches
C2_Witness ==
    /\ Handled("search")
    /\ request.pack.some /\ request.pack.val # <<>>
    /\ ~HasBackingDocument(request.pack.val)
    /\ \E i \in 1..Len(dataDir) :
          /\ dataDir[i].doc.ok
          /\ \E j \in 1..Len(dataDir[i].doc.items) :
                QueryMatches(request.q, dataDir[i].doc.items[j].k,
                             dataDir[i].doc.items[j].v)
    /\ response.status = 200
    /\ response.body.results = <<>>

-----------------------------------------------------------------------------
(* C3 *)

\* C3, as claimed: for an existing pack and every list S of section keys, the
\* empty list included, get_pack returns exactly the pack's entries whose
\* key is in S.
C3_Original ==
    (Handled("get_pack") /\ Loads(request.pack) /\ request.sections.some)
    => /\ response.status = 200
       /\ response.body.content =
            Restrict(BackingDocument(request.pack).items, request.sections.val)

\* C3, amended: for an existing pack and every non-empty list S of section
\* keys, get_pack returns exactly the pack's entries whose key is in S, with
\* their values, unknown keys giving no entry and no error; for the empty
\* list, as for no list, it returns the whole pack.
C3_SectionsFilter ==
    (Handled("get_pack") /\ Loads(request.pack))
    => /\ response.status = 200
       /\ response.body.content =
            IF request.sections.some /\ request.sections.val # <<>>
            THEN Restrict(BackingDocument(request.pack).items,
                          request.sections.val)
            ELSE BackingDocument(request.pack).items

\* a filter naming a key of the pack and a key it does not have kept one
\* entry of two
C3_Witness ==
    /\ Handled("get_pack")
    /\ Loads(request.pack)
    /\ request.sections = Some(<<KeyX, KeyC>>)
    /\ response.status = 200
    /\ Len(response.body.content) = 1
    /\ Len(BackingDocument(request.pack).items) = 2

-----------------------------------------------------------------------------
(* C4 *)

\* C4: every record of a search response has an excerpt of at most 300
\* characters that is a prefix of the text of the section the record names:
\* its first 300 characters when the text is longer, else the whole text.
C4_ExcerptIsPrefix ==
    (Handled("search") /\ response.status = 200)
    => \A r \in 1..Len(response.body.results) :
          LET rec == response.body.results[r]
          IN  /\ Len(rec.excerpt) <= 300
              /\ Loads(rec.pack)
              /\ \E j \in 1..Len(BackingDocument(rec.pack).items) :
                    LET it == BackingDocument(rec.pack).items[j]
                    IN  /\ it.k = rec.section
                        /\ Len(rec.excerpt) = (IF Len(it.v) > 300 THEN 300 ELSE Len(it.v))
                        /\ \A c \in 1..Len(rec.excerpt) : rec.excerpt[c] = it.v[c]

\* a search returned a record for a section whose text is longer than 300
\* characters
C4_Witness ==
    /\ Handled("search")
    /\ response.status = 200
    /\ \E r \in 1..Len(response.body.results) :
          LET rec == response.body.results[r]
          IN  /\ Len(rec.excerpt) = 300
              /\ \E j \in 1..Len(BackingDocument(rec.pack).items) :
                    /\ BackingDocument(rec.pack).items[j].k = rec.section
                    /\ Len(BackingDocument(rec.pack).items[j].v) > 300

-----------------------------------------------------------------------------
(* C5 *)

\* C5: in a search response, a section (key, text) of a scoped pack that
\* loads has a record if and only if the trimmed, lowercased query is a
\* substring of lowercase(key) + " " + lowercase(text); so a query in any
\* mix of case matches every section whose key or text holds it in any case,
\* and the empty or all-whitespace query matches every section.
C5_MatchRule ==
    (Handled("search") /\ response.status = 200)
    => \A i \in 1..Len(Scope) :
          Loads(Scope[i]) =>
            \A j \in 1..Len(BackingDocument(Scope[i]).items) :
               LET it  == BackingDocument(Scope[i]).items[j]
                   has == HasResult(response.body.results, Scope[i], it.k)
               IN  /\ has <=> QueryMatches(request.q, it.k, it.v)
                   /\ (\/ StrIn(StrLower(request.q), StrLower(it.k))
                       \/ StrIn(StrLower(request.q), StrLower(it.v))) => has
                   /\ (\A c \in 1..Len(request.q) : IsSpace(request.q[c])) => has

\* a query in mixed case was answered with the record of a section whose key
\* holds it in another case
C5_Witness ==
    /\ Handled("search")
    /\ response.status = 200
    /\ \E c \in 1..Len(request.q) : IsUpper(request.q[c])
    /\ \E r \in 1..Len(response.body.results) :
          /\ ~StrIn(request.q, response.body.results[r].section)
          /\ StrIn(StrLower(request.q), StrLower(response.body.results[r].section))

-----------------------------------------------------------------------------
(* C6 *)

\* C6: for a pack name with no backing document, GET /preview/{pack_name}
\* answers 404 with a message that echoes the requested name.
C6_PreviewEchoesName ==
    (Handled("preview") /\ ~HasBackingDocument(request.pack_name))
    => /\ response.status = 404
       /\ Mentions(response.detail, request.pack_name)

-----------------------------------------------------------------------------
(* C7 *)

\* a scoped pack whose backing document is present but does not load
SomeScopedPackUnloadable ==
    \E i \in 1..Len(Scope) :
        HasBackingDocument(Scope[i]) /\ ~BackingDocument(Scope[i]).ok

\* the matches of every scoped pack that loads are in the response
AllLoadedMatchesReturned ==
    \A i \in 1..Len(Scope) :
        Loads(Scope[i]) =>
           \A j \in 1..Len(BackingDocument(Scope[i]).items) :
              LET it == BackingDocument(Scope[i]).items[j]
              IN  QueryMatches(request.q, it.k, it.v)
                    => HasResult(response.body.results, Scope[i], it.k)

-----------------------------------------------------------------------------
(* C8 *)

\* the style block rendered for the lowercased name alone: no sections, no
\* options, a directory holding one other document under that name
StyleOfName(name) ==
    render_payload(<<[name |-> name \o DotJson, doc |-> DocB]>>,
                   [endpoint |-> "render_payload", pack |-> name,
                    sections |-> None, format |-> "json",
                    options |-> None]).resp.body.style

\* C8: the style block of a render_payload response depends only on the
\* lowercased pack name: theme is the lowercased name, palette is the
\* three-colour record (bg, primary, accent) for nlp, hypnosis and sales and
\* the empty record for every other name, fonts is the fixed two-entry list;
\* sections, options and content do not change it.
C8_StyleFromName ==
    (Handled("render_payload") /\ response.status = 200)
    => LET name  == StrLower(request.pack)
           style == response.body.style
       IN  /\ style.theme = name
           /\ style.fonts = <<"Inter", "Nunito">>
           /\ IF name \in {Nlp, Hypnosis, Sales}
              THEN /\ Len(style.palette) = 3
                   /\ style.palette[1].k = "bg"
                   /\ style.palette[2].k = "primary"
                   /\ style.palette[3].k = "accent"
              ELSE style.palette = <<>>
           /\ style = StyleOfName(name)

\* a payload was rendered for "Sales", with a sections filter and options
C8_Witness ==
    /\ Handled("render_payload")
    /\ response.status = 200
    /\ request.pack = SalesCap
    /\ Truthy(request.sections)
    /\ Truthy(request.options)
    /\ Len(response.body.style.palette) = 3

-----------------------------------------------------------------------------
(* C9 *)

\* the matching sections of the scope, as (pack position, section position)
Hits ==
    UNION { {<<i, j>> : j \in {j \in 1..Len(BackingDocument(Scope[i]).items) :
                                  QueryMatches(request.q,
                                      BackingDocument(Scope[i]).items[j].k,
                                      BackingDocument(Scope[i]).items[j].v)}} :
            i \in {i \in 1..Len(Scope) : Loads(Scope[i])} }

\* record rec is the record of hit h
RecordOf(rec, h) ==
    /\ rec.pack = Scope[h[1]]
    /\ rec.section = BackingDocument(Scope[h[1]]).items[h[2]].k

\* C9: the results of a search are ordered by pack in the scope's iteration
\* order, then by section in the document's insertion order, every matching
\* section giving exactly one record.
C9_ResultOrder ==
    (Handled("search") /\ response.status = 200)
    => LET res  == response.body.results
           hits == Hits
           pos  == [r \in 1..Len(res) |-> CHOOSE h \in hits : RecordOf(res[r], h)]
       IN  /\ Len(res) = Cardinality(hits)
           /\ \A r \in 1..Len(res) : \E h \in hits : RecordOf(res[r], h)
           /\ \A r1, r2 \in 1..Len(res) :
                 r1 < r2 =>
                    \/ pos[r1][1] < pos[r2][1]
                    \/ pos[r1][1] = pos[r2][1] /\ pos[r1][2] < pos[r2][2]

\* a search over the catalog returned two records of one pack and then a
\* record of another
C9_Witness ==
    /\ Handled("search")
    /\ response.status = 200
    /\ Len(response.body.results) >= 3
    /\ response.body.results[1].pack = response.body.results[2].pack
    /\ response.body.results[1].pack
          # response.body.results[Len(response.body.results)].pack

-----------------------------------------------------------------------------
(* C10 *)

\* what the endpoint of req answers on the documents dir and cfg
ResponseTo(dir, cfg, req) ==
    CASE req.endpoint = "health"         -> health
      [] req.endpoint = "list_packs"     -> list_packs(dir)
      [] req.endpoint = "get_pack"       -> get_pack(dir, req).resp
      [] req.endpoint = "search"         -> search_pack(dir, req, req.pack).resp
      [] req.endpoint = "render_payload" -> render_payload(dir, req).resp
      [] req.endpoint = "schema"         -> schema(cfg)
      [] req.endpoint = "preview"        -> preview(dir, req.pack_name).resp

=============================================================================
